---- MODULE Spec2Model ----
(***************************************************************************)
(* The simulation panels of tutorAI (array, graph, tree): the submission   *)
(* form, the server action that calls the generative model and checks its  *)
(* answer, the page state (isPending, simulationData, error) and the step  *)
(* viewer with its previous/next controls.                                 *)
(***************************************************************************)
EXTENDS Integers, Sequences, FiniteSets, TLC

\* Longest step sequence a response of the generative model carries.
MaxSteps == 2
\* Number of submissions followed in one session.
MaxSubmissions == 2

Families == {"array", "graph", "tree"}

(***************************************************************************)
(* JSON values.  One record shape for every value, so that any two can be  *)
(* compared: t is the JSON type, n the number (or the length of a string), *)
(* keys the own keys of an object, items the elements of an array, and     *)
(* nodes/edges/matrix/array the values under the keys of a step object.    *)
(* sorted, traversalOrder and found_at are the values under those keys of  *)
(* a step object; found_at is kept as its JSON spelling ("null", "1",      *)
(* "A"), "undefined" when the key is missing.                              *)
(***************************************************************************)
J(t, n, keys, items, nodes, edges, matrix, array) ==
    [t |-> t, n |-> n, keys |-> keys, items |-> items,
     nodes |-> nodes, edges |-> edges, matrix |-> matrix, array |-> array,
     sorted |-> <<>>, traversalOrder |-> <<>>, found_at |-> "undefined"]

JUndefined == J("undefined", 0, {}, <<>>, <<>>, <<>>, <<>>, <<>>)
JNull == J("null", 0, {}, <<>>, <<>>, <<>>, <<>>, <<>>)
JNum(n) == J("num", n, {}, <<>>, <<>>, <<>>, <<>>, <<>>)
JStr(len) == J("str", len, {}, <<>>, <<>>, <<>>, <<>>, <<>>)
JObj(keys) == J("obj", 0, keys, <<>>, <<>>, <<>>, <<>>, <<>>)
JArr(items) == J("arr", 0, {}, items, <<>>, <<>>, <<>>, <<>>)

\* Punctuation of a JSON text.
LBracket == J("[", 0, {}, <<>>, <<>>, <<>>, <<>>, <<>>)
RBracket == J("]", 0, {}, <<>>, <<>>, <<>>, <<>>, <<>>)
Comma == J(",", 0, {}, <<>>, <<>>, <<>>, <<>>, <<>>)

IsValue(tok) == tok.t \in {"null", "num", "str", "obj"}

\* A JSON text is a sequence of tokens: a scalar or an object is one token,
\* an array is "[" e1 "," e2 ... "]".
RECURSIVE Separated(_)
Separated(items) ==
    IF Len(items) = 0 THEN <<>>
    ELSE IF Len(items) = 1 THEN <<items[1]>>
    ELSE <<items[1], Comma>> \o Separated(Tail(items))

JSONstringify(v) ==
    IF v.t = "arr" THEN <<LBracket>> \o Separated(v.items) \o <<RBracket>>
    ELSE <<v>>

\* A text cut short of its last token (a truncated answer).
Truncated(text) == SubSeq(text, 1, Len(text) - 1)

\* JSON.parse: [ok |-> TRUE, value |-> v], or ok = FALSE for a SyntaxError.
SyntaxError == [ok |-> FALSE, value |-> JUndefined]

ElementsOk(inner) ==
    /\ Len(inner) % 2 = 1
    /\ \A i \in 1..Len(inner) :
          IF i % 2 = 1 THEN IsValue(inner[i]) ELSE inner[i] = Comma

JSONparse(text) ==
    IF Len(text) = 0 THEN SyntaxError
    ELSE IF Len(text) = 1
      THEN IF IsValue(text[1]) THEN [ok |-> TRUE, value |-> text[1]]
           ELSE SyntaxError
    ELSE IF text[1] = LBracket /\ text[Len(text)] = RBracket
      THEN LET inner == SubSeq(text, 2, Len(text) - 1) IN
           IF Len(inner) = 0 THEN [ok |-> TRUE, value |-> JArr(<<>>)]
           ELSE IF ElementsOk(inner)
             THEN [ok |-> TRUE,
                   value |-> JArr([k \in 1..((Len(inner) + 1) \div 2) |->
                                      inner[2 * k - 1]])]
           ELSE SyntaxError
    ELSE SyntaxError

\* JavaScript on a parsed value: truthiness, v[i], v.length === 0, "k in v".
Truthy(v) ==
    CASE v.t \in {"undefined", "null"} -> FALSE
      [] v.t \in {"num", "str"} -> v.n # 0
      [] OTHER -> TRUE

Index(v, i) ==
    IF v.t = "arr" /\ 0 <= i /\ i < Len(v.items) THEN v.items[i + 1]
    ELSE IF v.t = "str" /\ 0 <= i /\ i < v.n THEN JStr(1)
    ELSE JUndefined

HasLength(v) == v.t \in {"arr", "str"}
JSLength(v) == IF v.t = "arr" THEN Len(v.items) ELSE v.n
HasKey(v, k) == v.t = "obj" /\ k \in v.keys

(***************************************************************************)
(* What the generative model can answer.  A step object of the answer is   *)
(* a JSON object; the samples below are a node/edge step over the ids A,B, *)
(* one over the ids A,C, an array step, a distance-matrix step, a step     *)
(* whose distanceMatrix is [] and a step with a description only.  The     *)
(* array step has no sorted key and no found_at key, which the display     *)
(* reads as nothing sorted and nothing found.                              *)
(***************************************************************************)
Node(id, x, y) == [id |-> id, x |-> x, y |-> y]
Edge(source, target) == [source |-> source, target |-> target]

StepAB ==
    J("obj", 0, {"nodes", "edges", "stepDescription"}, <<>>,
      <<Node("A", 1, 1), Node("B", 2, 1)>>, <<Edge("A", "B")>>, <<>>, <<>>)
StepAC ==
    J("obj", 0, {"nodes", "edges", "stepDescription"}, <<>>,
      <<Node("A", 1, 1), Node("C", 2, 2)>>, <<Edge("A", "C")>>, <<>>, <<>>)
StepArray ==
    J("obj", 0, {"array", "highlighted", "stepDescription"}, <<>>,
      <<>>, <<>>, <<>>, <<2, 1>>)
StepMatrix ==
    J("obj", 0, {"distanceMatrix", "stepDescription"}, <<>>,
      <<>>, <<>>, <<<<0, 1, 2>>, <<1, 0, 7>>, <<2, 7, 0>>>>, <<>>)
StepEmptyMatrix ==
    J("obj", 0, {"distanceMatrix", "stepDescription"}, <<>>,
      <<>>, <<>>, <<>>, <<>>)
StepBare == JObj({"stepDescription"})

\* A sorting step with index 0 in its final place, a searching step that
\* found the target at index 1, and a tree step that has visited A and
\* reports A as found.
StepSorted ==
    [StepArray EXCEPT !.keys = {"array", "highlighted", "sorted", "stepDescription"},
                      !.sorted = <<0>>]
StepFound ==
    [StepArray EXCEPT !.keys = {"array", "highlighted", "found_at", "stepDescription"},
                      !.found_at = "1"]
StepVisited ==
    [StepAB EXCEPT !.keys = {"nodes", "edges", "traversalOrder", "found_at",
                             "stepDescription"},
                   !.traversalOrder = <<"A">>,
                   !.found_at = "A"]

\* A node/edge step with an edge to an id that no node has, and one in
\* which two nodes have the id A.
StepDangling == [StepAB EXCEPT !.edges = <<Edge("A", "B"), Edge("A", "Z")>>]
StepTwins ==
    [StepAB EXCEPT !.nodes = <<Node("A", 1, 1), Node("B", 2, 1), Node("A", 3, 3)>>]

\* The steps an answer to a prompt of each family is made of.
StepPool(fam) ==
    CASE fam = "array" -> {StepArray, StepSorted, StepFound, StepBare}
      [] fam = "graph" -> {StepAB, StepAC, StepMatrix, StepEmptyMatrix, StepBare}
      [] fam = "tree" -> {StepAB, StepAC, StepVisited, StepBare}

StepSequences(fam) == UNION {[1..n -> StepPool(fam)] : n \in 0..MaxSteps}

\* Values of visualizationData that parse: arrays of steps, and values that
\* are no array (null, a number, a string, an object).
NonArrayValues == {JNull, JNum(5), JStr(3), JObj({"steps"})}
ParsableTexts(fam) ==
    {JSONstringify(JArr(s)) : s \in StepSequences(fam)}
        \cup {JSONstringify(v) : v \in NonArrayValues}
\* Texts that do not parse: an answer cut short, and an empty one.
TruncatedTexts ==
    {Truncated(JSONstringify(JArr(<<StepAB>>))),
     Truncated(JSONstringify(JArr(<<StepAB, StepAB>>))),
     Truncated(JSONstringify(JNull))}

\* The outcome of one call of generateGraphSimulation / generateTreeSimulation
\* / generateAlgorithmSimulation: the flow throws, or it returns no output
\* (output! of an undefined output), or it returns an output object.
\* message is the message of the exception the call ends with.
Output(desc, text) ==
    [kind |-> "output", simulationDescription |-> desc, visualizationData |-> text,
     message |-> ""]
Thrown(message) ==
    [kind |-> "throw", simulationDescription |-> "", visualizationData |-> <<>>,
     message |-> message]
Throws == Thrown("fetch failed")
ThrowsQuota == Thrown("429 Too Many Requests")
NoOutput ==
    [kind |-> "nooutput", simulationDescription |-> "", visualizationData |-> <<>>,
     message |-> "Cannot read properties of undefined (reading 'visualizationData')"]

\* A few outcomes of each kind: a throw, a truncated answer, and an answer
\* of two steps as the prompt of the family asks for them.
ExampleSteps(fam) ==
    CASE fam = "array" -> <<StepArray, StepSorted>>
      [] fam = "graph" -> <<StepAB, StepAB>>
      [] fam = "tree" -> <<StepAB, StepVisited>>

SampleOutcomes(fam) ==
    {Throws,
     Output("description", Truncated(JSONstringify(JArr(ExampleSteps(fam))))),
     Output("description", JSONstringify(JArr(ExampleSteps(fam))))}

\* The set also has the example steps under a second description.
\* Answers of node/edge steps with such edges and nodes, for the graph and
\* tree pages.
EdgeSteps == {StepAB, StepDangling, StepTwins}
EdgeOutcomes(fam) ==
    IF fam = "array" THEN SampleOutcomes(fam)
    ELSE {Throws} \cup
         {Output("description", JSONstringify(JArr(s))) :
             s \in UNION {[1..n -> EdgeSteps] : n \in 1..MaxSteps}}

OutcomesOf(fam) ==
    {Throws, ThrowsQuota, NoOutput}
        \cup {Output("description", text) : text \in ParsableTexts(fam) \cup TruncatedTexts}
        \cup {Output("another description", JSONstringify(JArr(ExampleSteps(fam))))}

ArrayOutcomes == OutcomesOf("array")
GraphOutcomes == OutcomesOf("graph")
TreeOutcomes == OutcomesOf("tree")

Outcomes(fam) ==
    CASE fam = "array" -> ArrayOutcomes
      [] fam = "graph" -> GraphOutcomes
      [] fam = "tree" -> TreeOutcomes

(***************************************************************************)
(* The submission forms.                                                   *)
(***************************************************************************)
Algorithms(fam) ==
    CASE fam = "array" -> {"Bubble Sort", "Linear Search"}
      [] fam = "graph" -> {"Dijkstra's", "BFS"}
      [] fam = "tree" -> {"In-order Traversal", "Binary Search"}

DefaultAlgorithm(fam) ==
    CASE fam = "array" -> "Bubble Sort"
      [] fam = "graph" -> "Dijkstra's"
      [] fam = "tree" -> "In-order Traversal"

\* ALGORITHMS of each page: the type of an array or tree algorithm, and
\* needsStart / needsEnd of a graph algorithm.
AlgorithmType(a) ==
    CASE a \in {"Bubble Sort", "Selection Sort", "Insertion Sort", "Merge Sort",
                "Quick Sort"} -> "sort"
      [] a \in {"Linear Search", "Binary Search"} -> "search"
      [] a \in {"In-order Traversal", "Pre-order Traversal",
                "Post-order Traversal"} -> "traversal"
      [] OTHER -> "undefined"

NeedsStart(a) == a \in {"BFS", "DFS", "Dijkstra's", "Bellman-Ford"}
NeedsEnd(a) == a = "Dijkstra's"

\* The value of an optional text field (target, startNode, endNode):
\* undefined, or a string of characters; and a number, as Number(text)
\* gives it.
Absent == [defined |-> FALSE, isNumber |-> FALSE, text |-> <<>>, number |-> 0]
Text(chars) == [defined |-> TRUE, isNumber |-> FALSE, text |-> chars, number |-> 0]
Num(n) == [defined |-> TRUE, isNumber |-> TRUE, text |-> <<>>, number |-> n]
NaN == [defined |-> TRUE, isNumber |-> TRUE, text |-> <<"N", "a", "N">>, number |-> 0]

\* String.prototype.trim.
RECURSIVE TrimStart(_)
TrimStart(chars) ==
    IF Len(chars) > 0 /\ Head(chars) = " " THEN TrimStart(Tail(chars)) ELSE chars

RECURSIVE TrimEnd(_)
TrimEnd(chars) ==
    IF Len(chars) > 0 /\ chars[Len(chars)] = " "
      THEN TrimEnd(SubSeq(chars, 1, Len(chars) - 1))
    ELSE chars

Trim(chars) == TrimEnd(TrimStart(chars))

\* Number(text): 0 for a blank text, the value of a decimal numeral, NaN
\* for any other text.
Digits == <<"0", "1", "2", "3", "4", "5", "6", "7", "8", "9">>
IsDigit(ch) == \E d \in 1..Len(Digits) : Digits[d] = ch
DigitValue(ch) == (CHOOSE d \in 1..Len(Digits) : Digits[d] = ch) - 1

RECURSIVE Decimal(_)
Decimal(chars) ==
    IF Len(chars) = 0 THEN 0
    ELSE Len(Digits) * Decimal(SubSeq(chars, 1, Len(chars) - 1))
            + DigitValue(chars[Len(chars)])

Number(chars) ==
    IF Len(Trim(chars)) = 0 THEN Num(0)
    ELSE IF \A k \in 1..Len(Trim(chars)) : IsDigit(Trim(chars)[k])
      THEN Num(Decimal(Trim(chars)))
    ELSE NaN

\* defaultValues of the forms.
DefaultTarget(fam) ==
    CASE fam = "array" -> Text(<<"9">>)
      [] fam = "graph" -> Absent
      [] fam = "tree" -> Text(<<"1", "3">>)

DefaultStartNode(fam) == IF fam = "graph" THEN Text(<<"A">>) ELSE Absent
DefaultEndNode(fam) == IF fam = "graph" THEN Text(<<"E">>) ELSE Absent

\* What the user leaves in the target field (an input of type number gives
\* the empty string for anything that is no number) and in the node fields.
TargetChoices(fam) == {DefaultTarget(fam), Text(<<>>)}
StartNodeChoices == {Text(<<"A">>), Text(<<>>)}
EndNodeChoices == {Text(<<"E">>), Text(<<>>)}

\* The default text of the data field, and a text the user broke.
DefaultData(fam) ==
    CASE fam = "array" -> <<JNum(5), Comma, JNum(2), Comma, JNum(8), Comma,
                            JNum(1), Comma, JNum(9), Comma, JNum(4)>>
      [] fam = "graph" -> JSONstringify(JObj({"nodes", "edges"}))
      [] fam = "tree" -> JSONstringify(JObj({"value", "left", "right"}))

BrokenData(fam) ==
    CASE fam = "array" -> <<JNum(5), Comma>>
      [] fam = "graph" -> <<LBracket>>
      [] fam = "tree" -> <<LBracket>>

DataChoices(fam) == {DefaultData(fam), BrokenData(fam)}

\* The array form sends `[${values.arrayInput}]`.
Bracketed(text) == <<LBracket>> \o text \o <<RBracket>>

\* formSchema of each page (the zod resolver of the form).
ArrayInputValid(text) ==
    /\ Len(text) # 0
    /\ JSONparse(Bracketed(text)).ok
    /\ \A i \in 1..Len(JSONparse(Bracketed(text)).value.items) :
          JSONparse(Bracketed(text)).value.items[i].t = "num"

GraphDataValid(text) ==
    /\ JSONparse(text).ok
    /\ JSONparse(text).value.t \in {"obj", "arr"}
    /\ HasKey(JSONparse(text).value, "nodes")
    /\ HasKey(JSONparse(text).value, "edges")

TreeDataValid(text) ==
    /\ JSONparse(text).ok
    /\ JSONparse(text).value.t \in {"obj", "arr"}
    /\ HasKey(JSONparse(text).value, "value")

\* The refinement of the array and tree schemas: a search needs a target
\* that is defined, not blank and a number.
\* A schema without the refinement.
TargetUnchecked(a, target) == TRUE

TargetValid(a, target) ==
    AlgorithmType(a) = "search" =>
        /\ target.defined
        /\ Trim(target.text) # <<>>
        /\ Number(target.text) # NaN

DataValid(fam, text) ==
    CASE fam = "array" -> ArrayInputValid(text)
      [] fam = "graph" -> GraphDataValid(text)
      [] fam = "tree" -> TreeDataValid(text)

\* The fields the resolver reports: the data field of every page, and the
\* target field of the array and tree pages (path: ["target"]); the graph
\* schema has no rule for startNode and endNode.
InvalidFields(fam, f) ==
    {name \in {"data", "target"} :
        \/ name = "data" /\ ~DataValid(fam, f.data)
        \/ name = "target" /\ fam \in {"array", "tree"}
                           /\ ~TargetValid(f.algorithm, f.target)}

FormValid(fam, f) ==
    /\ f.algorithm # ""
    /\ InvalidFields(fam, f) = {}

\* The argument onSubmit passes to the server action.  The array page
\* sends parameters.target = Number(values.target) for a search with a
\* non-empty target; the graph page sends startNode and endNode, the tree
\* page target, as they are.
ActionTarget(fam, f) ==
    CASE fam = "array" ->
            IF AlgorithmType(f.algorithm) = "search" /\ Len(f.target.text) > 0
              THEN Number(f.target.text)
            ELSE Absent
      [] fam = "graph" -> Absent
      [] fam = "tree" -> f.target

ActionValues(fam, f) ==
    [algorithmName |-> f.algorithm,
     data |-> IF fam = "array" THEN Bracketed(f.data) ELSE f.data,
     target |-> ActionTarget(fam, f),
     startNode |-> IF fam = "graph" THEN f.startNode ELSE Absent,
     endNode |-> IF fam = "graph" THEN f.endNode ELSE Absent]

(***************************************************************************)
(* The server actions.  A Result is {success: true, data} or               *)
(* {success: false, error}; escaped marks an exception that leaves the     *)
(* action instead of a Result.                                             *)
(***************************************************************************)
NoError == "null"
InvalidInputMsg == "Invalid input."
InvalidGraphDataMsg == "Invalid graph data format. Please provide valid JSON."
InvalidTreeDataMsg == "Invalid tree data format. Please provide valid JSON."
InvalidVisualizationMsg == "AI returned invalid visualization data. Please try again."
UnexpectedMsg == "An unexpected error occurred while running the simulation. Please try again."

Null == [isNull |-> TRUE, simulationDescription |-> "", visualizationData |-> <<>>]

\* An action that returns a description of its own with the steps of the
\* response.
DataRedescribed(o) ==
    [isNull |-> FALSE, simulationDescription |-> "description",
     visualizationData |-> o.visualizationData]

Data(o) ==
    [isNull |-> FALSE, simulationDescription |-> o.simulationDescription,
     visualizationData |-> o.visualizationData]

Success(o) == [escaped |-> FALSE, success |-> TRUE, error |-> NoError, data |-> Data(o)]
Failure(msg) == [escaped |-> FALSE, success |-> FALSE, error |-> msg, data |-> Null]
Escapes == [escaped |-> TRUE, success |-> FALSE, error |-> NoError, data |-> Null]

\* try { output = await generate...(input); JSON.parse(output.visualizationData);
\*       return success } catch (e) { SyntaxError ? invalid data : unexpected }
\* A thrown flow and a read of visualizationData on a missing output both
\* land in the catch with an error that is no SyntaxError.
\* The action without JSON.parse(output.visualizationData).
UncheckedOutput(o) ==
    IF o.kind = "throw" THEN Failure(UnexpectedMsg)
    ELSE IF o.kind = "nooutput" THEN Failure(UnexpectedMsg)
    ELSE Success(o)

\* The action with a catch that handles the SyntaxError only and throws the
\* rest again.
RethrownOutput(o) ==
    IF o.kind = "throw" THEN Escapes
    ELSE IF o.kind = "nooutput" THEN Escapes
    ELSE IF ~JSONparse(o.visualizationData).ok THEN Failure(InvalidVisualizationMsg)
    ELSE Success(o)

\* The action with a catch that returns the message of the exception it
\* caught (the SyntaxError of JSON.parse names the place where the text
\* ends).
LeakedOutput(o) ==
    IF o.kind = "throw" THEN Failure(o.message)
    ELSE IF o.kind = "nooutput" THEN Failure(o.message)
    ELSE IF ~JSONparse(o.visualizationData).ok
      THEN Failure("Unexpected end of JSON input at position "
                       \o ToString(Len(o.visualizationData)))
    ELSE Success(o)

CheckedOutput(o) ==
    IF o.kind = "throw" THEN Failure(UnexpectedMsg)
    ELSE IF o.kind = "nooutput" THEN Failure(UnexpectedMsg)
    ELSE IF ~JSONparse(o.visualizationData).ok THEN Failure(InvalidVisualizationMsg)
    ELSE Success(o)

\* formSchema.safeParse(values) of the actions: algorithmName is a string.
\* MissingName stands for an algorithmName the caller left out (undefined),
\* which is no string.
MissingName == "(undefined)"
SchemaOk(values) == values.algorithmName \in STRING /\ values.algorithmName # MissingName

handleGraphSimulation(values, o) ==
    IF ~SchemaOk(values) THEN Failure(InvalidInputMsg)
    ELSE IF ~JSONparse(values.data).ok THEN Failure(InvalidGraphDataMsg)
    ELSE CheckedOutput(o)

handleTreeSimulation(values, o) ==
    IF ~SchemaOk(values) THEN Failure(InvalidInputMsg)
    ELSE IF ~JSONparse(values.data).ok THEN Failure(InvalidTreeDataMsg)
    ELSE CheckedOutput(o)

handleAlgorithmSimulation(values, o) ==
    IF ~SchemaOk(values) THEN Failure(InvalidInputMsg)
    ELSE CheckedOutput(o)

ServerAction(fam, values, o) ==
    CASE fam = "array" -> handleAlgorithmSimulation(values, o)
      [] fam = "graph" -> handleGraphSimulation(values, o)
      [] fam = "tree" -> handleTreeSimulation(values, o)

\* Whether the action reaches the call of the generative model.
\* An action that calls the model without parsing graphData / treeData.
CallsModelUnparsed(fam, values) == SchemaOk(values)

CallsModel(fam, values) ==
    /\ SchemaOk(values)
    /\ fam \in {"graph", "tree"} => JSONparse(values.data).ok

\* const input = {...}: the graph and array actions pass the fields on;
\* the tree action passes target ? Number(target) : undefined.
ModelInput(fam, values) ==
    IF fam = "tree"
      THEN [values EXCEPT !.target =
                IF values.target.defined /\ Len(values.target.text) > 0
                  THEN Number(values.target.text)
                ELSE Absent]
    ELSE values

\* The inputs the action hands to the generative model in one run: the
\* single await generate...(input) in the try, with no loop around it.
\* An action that calls the model a second time when the first call throws.
ModelCallsRetried(fam, values, o) ==
    IF ~CallsModel(fam, values) THEN <<>>
    ELSE IF o.kind = "throw" THEN <<ModelInput(fam, values), ModelInput(fam, values)>>
    ELSE <<ModelInput(fam, values)>>

ModelCalls(fam, values, o) ==
    IF CallsModel(fam, values) THEN <<ModelInput(fam, values)>> ELSE <<>>

(***************************************************************************)
(* Rendering.  What the result area of a page draws for a simulationData   *)
(* and a viewer index: "none" (no SimulationDisplay), "placeholder" (the   *)
(* viewer's early return), "steps" (the step at the index and the          *)
(* controls), "invalid" (the array display's own parse error) or "crash"   *)
(* (the render throws a TypeError).                                        *)
(***************************************************************************)
\* simulationSteps of the graph and tree pages: useMemo(JSON.parse(...)).
SimulationSteps(data) ==
    IF data.isNull THEN JNull
    ELSE IF JSONparse(data.visualizationData).ok
      THEN JSONparse(data.visualizationData).value
    ELSE JNull

\* A viewer that reads steps[0] whatever the index.
FirstStep(steps, i) == Index(steps, 0)

\* const currentStep = steps[step];
CurrentStep(steps, i) == Index(steps, i)

\* FloydWarshallVisualizer: step.distanceMatrix![0].slice(1) reads row 0.
FloydWarshallVisualizer(stepObject) ==
    IF Len(stepObject.matrix) = 0 THEN "crash" ELSE "steps"

\* const isFloydWarshall = currentStep.distanceMatrix !== undefined;
\* A viewer without the matrix branch.
IsFloydWarshallNever(currentStep) == FALSE

IsFloydWarshall(currentStep) == HasKey(currentStep, "distanceMatrix")

\* GraphVisualizer: steps[step], then the matrix or the node/edge drawing.
GraphVisualizer(steps, i) ==
    LET currentStep == CurrentStep(steps, i) IN
    IF ~Truthy(currentStep) THEN "placeholder"
    ELSE IF IsFloydWarshall(currentStep)
      THEN FloydWarshallVisualizer(currentStep)
    ELSE IF ~HasKey(currentStep, "edges") THEN "crash"
    ELSE IF ~HasKey(currentStep, "nodes") THEN "crash"
    ELSE "steps"

\* TreeVisualizer: steps[step], then the node/edge drawing.
TreeVisualizer(steps, i) ==
    LET currentStep == CurrentStep(steps, i) IN
    IF ~Truthy(currentStep) THEN "placeholder"
    ELSE IF ~HasKey(currentStep, "edges") THEN "crash"
    ELSE IF ~HasKey(currentStep, "nodes") THEN "crash"
    ELSE "steps"

\* {simulationData && simulationSteps && <SimulationDisplay .../>}
GraphView(data, i) ==
    IF data.isNull \/ ~Truthy(SimulationSteps(data)) THEN "none"
    ELSE GraphVisualizer(SimulationSteps(data), i)

TreeView(data, i) ==
    IF data.isNull \/ ~Truthy(SimulationSteps(data)) THEN "none"
    ELSE IF HasLength(SimulationSteps(data)) /\ JSLength(SimulationSteps(data)) = 0
      THEN "placeholder"
    ELSE TreeVisualizer(SimulationSteps(data), i)

\* {simulationData && <SimulationDisplay data={simulationData} />} of the
\* array page, which parses visualizationData itself.
ArrayView(data, i) ==
    IF data.isNull THEN "none"
    ELSE IF ~JSONparse(data.visualizationData).ok THEN "invalid"
    ELSE LET visualizationSteps == JSONparse(data.visualizationData).value
             currentStepData == Index(visualizationSteps, i) IN
         IF visualizationSteps.t = "null" THEN "crash"
         ELSE IF HasLength(visualizationSteps) /\ JSLength(visualizationSteps) = 0
           THEN "placeholder"
         ELSE IF currentStepData.t \in {"undefined", "null"} THEN "crash"
         ELSE IF ~HasKey(currentStepData, "array") THEN "crash"
         ELSE IF Len(currentStepData.array) > 0 /\ ~HasKey(currentStepData, "highlighted")
           THEN "crash"
         ELSE "steps"

\* The cells of the array display: isSorted = sorted?.includes(index) and
\* isFound = found_at === index, for every index of currentStepData.array.
\* A display that marks no cell sorted, and one that marks none found.
IsSortedNever(currentStepData, index) == FALSE
IsFoundNever(currentStepData, index) == FALSE

IsSorted(currentStepData, index) ==
    /\ HasKey(currentStepData, "sorted")
    /\ \E k \in 1..Len(currentStepData.sorted) : currentStepData.sorted[k] = index

IsFound(currentStepData, index) == currentStepData.found_at = ToString(index)

SortedCells(data, i) ==
    LET currentStepData == CurrentStep(JSONparse(data.visualizationData).value, i) IN
    {index \in 0..(Len(currentStepData.array) - 1) : IsSorted(currentStepData, index)}

FoundCells(data, i) ==
    LET currentStepData == CurrentStep(JSONparse(data.visualizationData).value, i) IN
    {index \in 0..(Len(currentStepData.array) - 1) : IsFound(currentStepData, index)}

\* The variant the graph viewer draws for the step at the index, and the
\* "Traversal Order" list of the tree viewer (drawn when the step has a
\* traversalOrder that is not empty).
DrawnVariant(data, i) ==
    IF IsFloydWarshall(CurrentStep(SimulationSteps(data), i)) THEN "matrix"
    ELSE "nodeEdge"

TraversalShown(data, i) ==
    LET currentStep == CurrentStep(SimulationSteps(data), i) IN
    IF HasKey(currentStep, "traversalOrder") /\ Len(currentStep.traversalOrder) > 0
      THEN currentStep.traversalOrder
    ELSE <<>>

\* SimulationDisplay: <p>{data.simulationDescription}</p> under the viewer.
DescriptionShown(data) == data.simulationDescription

\* nodeMap: currentStep.nodes.forEach(node => map.set(node.id, node)), so
\* the node under an id is the last node of the step with that id.
\* A map that keeps the first node under an id.
NodeMapGetFirst(stepObject, id) ==
    stepObject.nodes[CHOOSE k \in 1..Len(stepObject.nodes) :
        /\ stepObject.nodes[k].id = id
        /\ \A j \in 1..(k - 1) : stepObject.nodes[j].id # id]

NodeMapHas(stepObject, id) ==
    \E k \in 1..Len(stepObject.nodes) : stepObject.nodes[k].id = id

NodeMapGet(stepObject, id) ==
    stepObject.nodes[CHOOSE k \in 1..Len(stepObject.nodes) :
        /\ stepObject.nodes[k].id = id
        /\ \A j \in (k + 1)..Len(stepObject.nodes) : stepObject.nodes[j].id # id]

\* currentStep.edges.map: null for an edge whose source or target is not in
\* the map, else a line between the two nodes of the map.
Line(index, sourceNode, targetNode) ==
    [index |-> index, x1 |-> sourceNode.x, y1 |-> sourceNode.y,
     x2 |-> targetNode.x, y2 |-> targetNode.y]

DrawnLines(stepObject) ==
    {Line(k - 1, NodeMapGet(stepObject, stepObject.edges[k].source),
                 NodeMapGet(stepObject, stepObject.edges[k].target)) :
        k \in {e \in 1..Len(stepObject.edges) :
                  /\ NodeMapHas(stepObject, stepObject.edges[e].source)
                  /\ NodeMapHas(stepObject, stepObject.edges[e].target)}}

\* The ids of the nodes the graph or tree viewer draws (currentStep.nodes.map).
NodeIds(stepObject) == {stepObject.nodes[k].id : k \in 1..Len(stepObject.nodes)}
DrawnNodeIds(data, i) == NodeIds(CurrentStep(SimulationSteps(data), i))

View(fam, data, i) ==
    CASE fam = "array" -> ArrayView(data, i)
      [] fam = "graph" -> GraphView(data, i)
      [] fam = "tree" -> TreeView(data, i)

\* Whether the component that owns the index (useState(0)) is mounted.
ViewerMounted(fam, data) ==
    CASE fam = "array" -> ~data.isNull
      [] fam = "graph" -> ~data.isNull /\ Truthy(SimulationSteps(data))
      [] fam = "tree" ->
            /\ ~data.isNull
            /\ Truthy(SimulationSteps(data))
            /\ ~(HasLength(SimulationSteps(data)) /\ JSLength(SimulationSteps(data)) = 0)

\* The number of steps the viewer counts ("Step: i / N").
StepCount(data) ==
    IF HasLength(SimulationSteps(data)) THEN JSLength(SimulationSteps(data)) ELSE 0

\* The index of a viewer that stays mounted is kept; a viewer that mounts
\* starts from useState(0).
StepAfter(fam, before, after, i) ==
    IF ViewerMounted(fam, before) /\ ViewerMounted(fam, after) THEN i ELSE 0

Max(a, b) == IF a >= b THEN a ELSE b
Min(a, b) == IF a <= b THEN a ELSE b

\* The controls: disabled={step === 0}, disabled={step === steps.length - 1},
\* setStep(s => Math.max(0, s - 1)), setStep(s => Math.min(steps.length - 1, s + 1)).
\* A next button without the clamp: setStep(s => s + 1).
NextStepUnclamped(s, n) == s + 1

\* A next button that is never disabled.
NextNeverDisabled(i, n) == FALSE

PreviousDisabled(i) == i = 0
NextDisabled(i, n) == i = n - 1
PreviousStep(s) == Max(0, s - 1)
NextStep(s, n) == Min(n - 1, s + 1)

\* The scrubber of the earlier array viewer: a Slider with min 0 and max
\* length - 1 whose onValueChange sets the step, so a position outside the
\* range arrives as the nearest end.
Seek(i, n) == Max(0, Min(n - 1, i))

(***************************************************************************)
(* The page.  family is the panel that is open; form its field values;     *)
(* isPending, simulationData and error the page's state; step the index of *)
(* the viewer (0 while no viewer is mounted); crashed whether a render     *)
(* threw; inflight the server-action calls that have not returned.         *)
(* History: calls is the argument of every server-action call so far, sent *)
(* the inputs that reached the generative model, last the returned call of *)
(* the current run with the model's outcome and the action's Result        *)
(* (NoCall before the run's call returns), leftAt the index the viewer was  *)
(* at when the latest submission was made, direct the latest call of the  *)
(* server action that was made without the page (<<>> before any), and    *)
(* invalid the fields of the form that show a validation message.          *)
(* The tutor page's voice input: isListening is the page's state,          *)
(* recognition the session of the browser's speech recogniser ("idle",     *)
(* "starting" after start() until its start event, "listening", "ending"   *)
(* until its end event), question the question field, and methodCalls the  *)
(* history of the start() and stop() calls made on the recogniser, each    *)
(* with the session it met.                                                *)
(***************************************************************************)
VARIABLES family, form, isPending, simulationData, error, step, crashed,
          inflight, calls, sent, last, leftAt, direct, invalid,
          isListening, recognition, methodCalls, question

vars == <<family, form, isPending, simulationData, error, step, crashed,
          inflight, calls, sent, last, leftAt, direct, invalid,
          isListening, recognition, methodCalls, question>>

NoCall == [sub |-> 0, outcome |-> Throws, result |-> Failure(NoError)]

Init ==
    /\ family \in Families
    /\ form = [algorithm |-> DefaultAlgorithm(family), data |-> DefaultData(family),
               target |-> DefaultTarget(family),
               startNode |-> DefaultStartNode(family),
               endNode |-> DefaultEndNode(family)]
    /\ isPending = FALSE
    /\ simulationData = Null
    /\ error = NoError
    /\ step = 0
    /\ crashed = FALSE
    /\ inflight = {}
    /\ calls = <<>>
    /\ sent = <<>>
    /\ last = NoCall
    /\ leftAt = 0
    /\ direct = <<>>
    /\ invalid = {}
    /\ isListening = FALSE
    /\ recognition = "idle"
    /\ methodCalls = <<>>
    /\ question = ""

\* The fields of the form.  Once the form has been submitted, a change of
\* a field validates that field again (the form's revalidation on change).
Submitted == invalid # {} \/ Len(calls) > 0

Revalidated(name, f) ==
    IF Submitted
      THEN (invalid \ {name}) \cup (InvalidFields(family, f) \cap {name})
    ELSE invalid

\* onValueChange of the algorithm Select: field.onChange(value), and on the
\* array page for a sort, on the tree page for a traversal,
\* form.setValue('target', undefined).
TargetAfterSelect(fam, a, target) ==
    IF \/ fam = "array" /\ AlgorithmType(a) = "sort"
       \/ fam = "tree" /\ AlgorithmType(a) = "traversal"
      THEN Absent
    ELSE target

SelectAlgorithm(a) ==
    /\ ~crashed
    /\ a # form.algorithm
    /\ form' = [form EXCEPT !.algorithm = a,
                            !.target = TargetAfterSelect(family, a, @)]
    /\ UNCHANGED <<isListening, recognition, methodCalls, question, family, isPending, simulationData, error, step, crashed,
                   inflight, calls, sent, last, leftAt, direct, invalid>>

EditData(d) ==
    /\ ~crashed
    /\ d # form.data
    /\ form' = [form EXCEPT !.data = d]
    /\ invalid' = Revalidated("data", form')
    /\ UNCHANGED <<isListening, recognition, methodCalls, question, family, isPending, simulationData, error, step, crashed,
                   inflight, calls, sent, last, leftAt, direct>>

\* The target field is rendered for a search, the start and end fields for
\* an algorithm with needsStart and needsEnd.
EditTarget(t) ==
    /\ ~crashed
    /\ family \in {"array", "tree"}
    /\ AlgorithmType(form.algorithm) = "search"
    /\ t # form.target
    /\ form' = [form EXCEPT !.target = t]
    /\ invalid' = Revalidated("target", form')
    /\ UNCHANGED <<isListening, recognition, methodCalls, question, family, isPending, simulationData, error, step, crashed,
                   inflight, calls, sent, last, leftAt, direct>>

EditStartNode(t) ==
    /\ ~crashed
    /\ family = "graph"
    /\ NeedsStart(form.algorithm)
    /\ t # form.startNode
    /\ form' = [form EXCEPT !.startNode = t]
    /\ UNCHANGED <<isListening, recognition, methodCalls, question, family, isPending, simulationData, error, step, crashed,
                   inflight, calls, sent, last, leftAt, direct, invalid>>

EditEndNode(t) ==
    /\ ~crashed
    /\ family = "graph"
    /\ NeedsEnd(form.algorithm)
    /\ t # form.endNode
    /\ form' = [form EXCEPT !.endNode = t]
    /\ UNCHANGED <<isListening, recognition, methodCalls, question, family, isPending, simulationData, error, step, crashed,
                   inflight, calls, sent, last, leftAt, direct, invalid>>

\* <Button type="submit" disabled={isPending}>
\* A submit button that is never disabled.
SubmitNeverDisabled == FALSE

SubmitDisabled == isPending

\* onSubmit: setError(null); setSimulationData(null); startTransition(...).
\* onSubmit without setError(null), and without setSimulationData(null).
ErrorKeptOnSubmit(e) == e
DataKeptOnSubmit(d) == d

ErrorOnSubmit(e) == NoError
DataOnSubmit(d) == Null

\* The click on the submit button: handleSubmit runs the resolver and
\* calls onSubmit for a valid form; for an invalid one it shows the
\* messages of the fields and onSubmit is not called.
Submit ==
    \/ /\ ~crashed
       /\ ~SubmitDisabled
       /\ ~FormValid(family, form)
       /\ invalid' = InvalidFields(family, form)
       /\ UNCHANGED <<isListening, recognition, methodCalls, question, family, form, isPending, simulationData, error, step,
                      crashed, inflight, calls, sent, last, leftAt, direct>>
    \/ /\ ~crashed
       /\ ~SubmitDisabled
       /\ FormValid(family, form)
       /\ Len(calls) < MaxSubmissions
       /\ invalid' = {}
       /\ error' = ErrorOnSubmit(error)
       /\ simulationData' = DataOnSubmit(simulationData)
       /\ step' = StepAfter(family, simulationData, simulationData', step)
       /\ crashed' = (View(family, simulationData', step') = "crash")
       /\ isPending' = TRUE
       /\ inflight' = inflight \cup
             {[sub |-> Len(calls) + 1, values |-> ActionValues(family, form)]}
       /\ calls' = Append(calls, ActionValues(family, form))
       /\ last' = NoCall
       /\ leftAt' = step
       /\ UNCHANGED <<isListening, recognition, methodCalls, question, family, form, sent, direct>>

\* The server action runs, the generative model answers with o, and the
\* transition's callback continues after its await (isPending of
\* useTransition stays true until the async callback has returned):
\* if (result.success) setSimulationData(result.data) else setError(result.error);
\* the useMemo of the graph and tree pages sets the error when the data of
\* a success does not parse.
ErrorAfter(fam, result, e) ==
    IF result.escaped THEN e
    ELSE IF ~result.success THEN result.error
    ELSE IF fam \in {"graph", "tree"} /\ ~JSONparse(result.data.visualizationData).ok
      THEN InvalidVisualizationMsg
    ELSE e

\* A callback that does not store the data of a success.
DataDropped(result, d) == d

DataAfter(result, d) ==
    IF ~result.escaped /\ result.success THEN result.data ELSE d

Respond(c, o) ==
    /\ ~crashed
    /\ c \in inflight
    /\ LET result == ServerAction(family, c.values, o) IN
         /\ error' = ErrorAfter(family, result, error)
         /\ simulationData' = DataAfter(result, simulationData)
         /\ step' = StepAfter(family, simulationData, simulationData', step)
         /\ crashed' = (result.escaped \/ View(family, simulationData', step') = "crash")
         /\ last' = [sub |-> c.sub, outcome |-> o, result |-> result]
         /\ sent' = sent \o ModelCalls(family, c.values, o)
    /\ inflight' = inflight \ {c}
    /\ isPending' = (inflight' # {})
    /\ UNCHANGED <<isListening, recognition, methodCalls, question, family, form, calls, leftAt, direct, invalid>>

\* The previous and next buttons of the viewer.
ControlsShown == View(family, simulationData, step) = "steps"

Previous ==
    /\ ~crashed
    /\ ControlsShown
    /\ ~PreviousDisabled(step)
    /\ step' = PreviousStep(step)
    /\ crashed' = (View(family, simulationData, step') = "crash")
    /\ UNCHANGED <<isListening, recognition, methodCalls, question, family, form, isPending, simulationData, error,
                   inflight, calls, sent, last, leftAt, direct, invalid>>

\* Next without its guard and clamp: setStep(s => s + 1) on a button that
\* is never disabled.
NextUnclamped ==
    /\ ~crashed
    /\ ControlsShown
    /\ step < MaxSteps + 1
    /\ step' = step + 1
    /\ crashed' = (View(family, simulationData, step') = "crash")
    /\ UNCHANGED <<isListening, recognition, methodCalls, question, family, form, isPending, simulationData, error,
                   inflight, calls, sent, last, leftAt, direct, invalid>>

\* A next button that takes the first step off the sequence
\* (steps.shift()) instead of moving the index.
NextShifting ==
    /\ ~crashed
    /\ ControlsShown
    /\ ~NextDisabled(step, StepCount(simulationData))
    /\ simulationData' =
          [simulationData EXCEPT !.visualizationData =
              JSONstringify(JArr(Tail(SimulationSteps(simulationData).items)))]
    /\ step' = step
    /\ crashed' = (View(family, simulationData', step') = "crash")
    /\ UNCHANGED <<isListening, recognition, methodCalls, question, family, form, isPending, error,
                   inflight, calls, sent, last, leftAt, direct, invalid>>

Next ==
    /\ ~crashed
    /\ ControlsShown
    /\ ~NextDisabled(step, StepCount(simulationData))
    /\ step' = NextStep(step, StepCount(simulationData))
    /\ crashed' = (View(family, simulationData, step') = "crash")
    /\ UNCHANGED <<isListening, recognition, methodCalls, question, family, form, isPending, simulationData, error,
                   inflight, calls, sent, last, leftAt, direct, invalid>>

\* A call of the server action that does not come from the page's form: a
\* server action is an endpoint any client can call with any argument.
\* The Result goes back to that caller; the page is not involved.
DirectData(fam) ==
    CASE fam = "array" -> {Bracketed(DefaultData(fam)), <<JStr(3)>>, <<LBracket>>}
      [] fam = "graph" -> {DefaultData(fam), <<JNum(5)>>, <<LBracket>>}
      [] fam = "tree" -> {DefaultData(fam), <<JNum(5)>>, <<LBracket>>}

DirectValues(name, d) ==
    [algorithmName |-> name, data |-> d,
     target |-> Absent, startNode |-> Absent, endNode |-> Absent]

DirectCall(values, o) ==
    /\ Len(sent) < MaxSubmissions
    /\ direct' = <<[values |-> values,
                    result |-> ServerAction(family, values, o),
                    modelCalls |-> Len(ModelCalls(family, values, o))]>>
    /\ sent' = sent \o ModelCalls(family, values, o)
    /\ UNCHANGED <<isListening, recognition, methodCalls, question, family, form, isPending, simulationData, error, step, crashed,
                   inflight, calls, last, leftAt, invalid>>

Step ==
    \/ \E a \in Algorithms(family) : SelectAlgorithm(a)
    \/ \E d \in DataChoices(family) : EditData(d)
    \/ Submit
    \/ \E c \in inflight, o \in Outcomes(family) : Respond(c, o)
    \/ Previous
    \/ Next

Spec == Init /\ [][Step]_vars

\* The form with all its fields, against a few outcomes of each kind.
StepForm ==
    \/ \E a \in Algorithms(family) : SelectAlgorithm(a)
    \/ \E d \in DataChoices(family) : EditData(d)
    \/ \E t \in TargetChoices(family) : EditTarget(t)
    \/ \E t \in StartNodeChoices : EditStartNode(t)
    \/ \E t \in EndNodeChoices : EditEndNode(t)
    \/ Submit
    \/ \E c \in inflight, o \in SampleOutcomes(family) : Respond(c, o)

SpecForm == Init /\ [][StepForm]_vars

\* The server actions called directly, with an algorithm name and
\* without one.
StepDirect ==
    \/ \E d \in DirectData(family), o \in SampleOutcomes(family) :
          DirectCall(DirectValues(DefaultAlgorithm(family), d), o)
    \/ \E d \in DirectData(family), o \in SampleOutcomes(family) :
          DirectCall(DirectValues(MissingName, d), o)

SpecDirect == Init /\ [][StepDirect]_vars

\* The pages against answers whose edges and nodes put the drawing of the
\* edges to work.
StepEdges ==
    \/ \E d \in DataChoices(family) : EditData(d)
    \/ Submit
    \/ \E c \in inflight, o \in EdgeOutcomes(family) : Respond(c, o)
    \/ Previous
    \/ Next

SpecEdges == Init /\ [][StepEdges]_vars

(***************************************************************************)
(* The voice input of the tutor page, in a browser that has                *)
(* webkitSpeechRecognition.  The simulation panels stay as they are.       *)
(***************************************************************************)
\* Clicks on the microphone button followed in one session.
MaxClicks == 3

\* recognition.start(): an InvalidStateError when the recogniser has been
\* started and has not ended, else the session starts.  recognition.stop():
\* ignored when there is no session, else the session goes on to its end.
SessionAfterStart(session) == IF session = "idle" THEN "starting" ELSE session
SessionAfterStop(session) == IF session = "idle" THEN "idle" ELSE "ending"

MethodCall(method) == [method |-> method, session |-> recognition]

\* handleVoiceInput: if (isListening) recognition.stop() else recognition.start().
handleVoiceInput ==
    /\ Len(methodCalls) < MaxClicks
    /\ IF isListening
         THEN /\ methodCalls' = Append(methodCalls, MethodCall("stop"))
              /\ recognition' = SessionAfterStop(recognition)
         ELSE /\ methodCalls' = Append(methodCalls, MethodCall("start"))
              /\ recognition' = SessionAfterStart(recognition)
    /\ UNCHANGED <<isListening, question, family, form, isPending, simulationData,
                   error, step, crashed, inflight, calls, sent, last, leftAt,
                   direct, invalid>>

\* recognition.onstart = () => setIsListening(true)
OnStart ==
    /\ recognition = "starting"
    /\ recognition' = "listening"
    /\ isListening' = TRUE
    /\ UNCHANGED <<methodCalls, question, family, form, isPending, simulationData,
                   error, step, crashed, inflight, calls, sent, last, leftAt,
                   direct, invalid>>

\* recognition.onresult: form.setValue('question', transcript); with
\* continuous = false the session ends after its result.
OnResult ==
    /\ recognition = "listening"
    /\ recognition' = "ending"
    /\ question' = "transcript"
    /\ UNCHANGED <<isListening, methodCalls, family, form, isPending, simulationData,
                   error, step, crashed, inflight, calls, sent, last, leftAt,
                   direct, invalid>>

\* recognition.onerror: setIsListening(false); the end event is still to
\* come.
OnError ==
    /\ recognition \in {"starting", "listening"}
    /\ recognition' = "ending"
    /\ isListening' = FALSE
    /\ UNCHANGED <<methodCalls, question, family, form, isPending, simulationData,
                   error, step, crashed, inflight, calls, sent, last, leftAt,
                   direct, invalid>>

\* recognition.onend = () => setIsListening(false)
OnEnd ==
    /\ recognition = "ending"
    /\ recognition' = "idle"
    /\ isListening' = FALSE
    /\ UNCHANGED <<methodCalls, question, family, form, isPending, simulationData,
                   error, step, crashed, inflight, calls, sent, last, leftAt,
                   direct, invalid>>

StepVoice ==
    \/ handleVoiceInput
    \/ OnStart
    \/ OnResult
    \/ OnError
    \/ OnEnd

SpecVoice == Init /\ [][StepVoice]_vars

(***************************************************************************)
(* Properties.                                                             *)
(***************************************************************************)
\* The run on display: the step array of simulationData, when it is one.
Loaded == ~simulationData.isNull /\ SimulationSteps(simulationData).t = "arr"
N == StepCount(simulationData)

\* C1: for a loaded sequence of N >= 1 steps, after any previous/next
\* navigation the index i satisfies 0 <= i <= N-1 and the step at the index
\* exists, in the array, graph and tree viewers.
C1_IndexInRange ==
    (Loaded /\ N >= 1) =>
        /\ 0 <= step /\ step <= N - 1
        /\ Index(SimulationSteps(simulationData), step).t # "undefined"

\* C1 witness: the viewer was moved to the last step of a run of several.
C1_Witness == Loaded /\ N >= 2 /\ step = N - 1 /\ ~crashed

\* C2: when a new result is loaded the index is 0 and in range for the new
\* sequence, whatever the viewer showed before.
C2_LoadStartsAtZero ==
    [][(simulationData' # simulationData /\ ~simulationData'.isNull) =>
          /\ step' = 0
          /\ StepCount(simulationData') >= 1 =>
                Index(SimulationSteps(simulationData'), step').t # "undefined"]_vars

\* C2 witness: a run is loaded at index 0 after the previous run was left
\* at an index that the new sequence does not have.
C2_Witness ==
    /\ Loaded /\ N >= 1 /\ step = 0
    /\ Len(calls) >= 2 /\ last.sub = Len(calls)
    /\ leftAt >= N

C4_OneInFlight ==
    /\ Cardinality(inflight) <= 1
    /\ inflight # {} => isPending

\* C4 witness: a second submission is in flight, started after the first
\* returned.
C4_Witness == Len(calls) = 2 /\ Cardinality(inflight) = 1

\* C5: when visualizationData is not valid JSON the run ends in the
\* "invalid visualization data" error, nothing is loaded and no step shows.
UnparsableRun ==
    /\ last.sub # 0
    /\ last.outcome.kind = "output"
    /\ ~JSONparse(last.outcome.visualizationData).ok

C5_MalformedStaysEmpty ==
    UnparsableRun =>
        /\ error = InvalidVisualizationMsg
        /\ simulationData.isNull
        /\ View(family, simulationData, step) = "none"
        /\ ~crashed

\* C5 witness: a truncated answer arrived after a run had been displayed.
C5_Witness ==
    /\ UnparsableRun
    /\ last.outcome.visualizationData = Truncated(JSONstringify(JArr(<<StepAB, StepAB>>)))
    /\ Len(calls) = 2

\* The answer of the current run, when the model returned an output whose
\* visualizationData parses.
ParsedRun ==
    /\ last.sub # 0
    /\ last.outcome.kind = "output"
    /\ JSONparse(last.outcome.visualizationData).ok
RunValue == JSONparse(last.outcome.visualizationData).value

\* C6 (as stated): an answer whose visualizationData parses to something
\* that is no array, or to an empty array, is rejected with a validation
\* error and never loaded.
C6_NonArrayRejected ==
    (ParsedRun /\ (RunValue.t # "arr" \/ Len(RunValue.items) = 0)) =>
        /\ ~last.result.success
        /\ error # NoError
        /\ simulationData.isNull

\* C7: the server actions let no exception escape; whatever the external
\* call does (an output that parses, one that does not, no output, a
\* throw) they return a Result, with success false and an error message in
\* every failing case.
C7_ActionsReturnResult ==
    last.sub # 0 =>
        /\ ~last.result.escaped
        /\ IF ParsedRun
             THEN /\ last.result.success
                  /\ last.result.data = Data(last.outcome)
             ELSE /\ ~last.result.success
                  /\ last.result.data.isNull
                  /\ last.result.error \in {InvalidVisualizationMsg, UnexpectedMsg}

\* C7 witness: the flow returned no output and the action answered with the
\* unexpected-error Result, which the page shows.
C7_Witness ==
    /\ last.sub # 0
    /\ last.outcome = NoOutput
    /\ last.result = Failure(UnexpectedMsg)
    /\ error = UnexpectedMsg

\* C8 (as stated): no response crashes the session; the render of every
\* response the action returned as a success completes at every index.
C8_NeverCrashes == ~crashed

\* C9: a run is shown in full or not at all: with an error on display no
\* step is displayed, and steps are displayed only for a run whose server
\* action returned success.
C9_ErrorOrSteps ==
    /\ error # NoError =>
          simulationData.isNull /\ View(family, simulationData, step) = "none"
    /\ View(family, simulationData, step) = "steps" =>
          /\ last.sub # 0
          /\ last.result.success
          /\ simulationData = last.result.data

\* C9 witness: an error is on display for the second run, after the first
\* run's steps had been displayed and stepped through.
C9_Witness ==
    /\ Len(calls) = 2 /\ last.sub = 2
    /\ error # NoError
    /\ leftAt >= 1

\* An answer of node/edge steps in which some step has other node ids than
\* step 0.
NodeEdgeStep(stepObject) ==
    /\ HasKey(stepObject, "nodes")
    /\ HasKey(stepObject, "edges")
    /\ ~HasKey(stepObject, "distanceMatrix")

NodeIdsChange ==
    /\ ParsedRun
    /\ RunValue.t = "arr"
    /\ \A k \in 1..Len(RunValue.items) : NodeEdgeStep(RunValue.items[k])
    /\ \E k \in 1..Len(RunValue.items) :
          NodeIds(RunValue.items[k]) # NodeIds(RunValue.items[1])

\* C10 (as stated): a graph or tree answer in which some step has other
\* node ids than step 0 is rejected and never displayed.
C10_IdChangeRejected ==
    (family \in {"graph", "tree"} /\ NodeIdsChange) =>
        /\ ~last.result.success
        /\ simulationData.isNull

\* C10 (amended): such an answer is not rejected: the action returns
\* success, no error is set, the answer is loaded, and the viewer draws
\* every step with that step's own nodes.
C10_IdChangeDisplayed ==
    (family \in {"graph", "tree"} /\ NodeIdsChange) =>
        /\ last.result.success
        /\ error = NoError
        /\ simulationData = Data(last.outcome)
        /\ View(family, simulationData, step) = "steps"
        /\ DrawnNodeIds(simulationData, step) = NodeIds(RunValue.items[step + 1])

\* C10 witness: the graph viewer shows a step whose node ids are not those
\* of step 0.
C10_Witness ==
    /\ family = "graph" /\ NodeIdsChange
    /\ step >= 1
    /\ DrawnNodeIds(simulationData, step) # DrawnNodeIds(simulationData, 0)

(***************************************************************************)
(* Properties of the content of a run.                                     *)
(***************************************************************************)
\* The algorithm of the run whose call has returned.
RunAlgorithm == calls[last.sub].algorithmName

\* An answer that parsed to an array, every step of which the array display
\* can draw (it has array and highlighted).
ArrayStep(stepObject) ==
    HasKey(stepObject, "array") /\ HasKey(stepObject, "highlighted")

ArrayRun ==
    /\ family = "array"
    /\ ParsedRun
    /\ RunValue.t = "arr"
    /\ \A k \in 1..Len(RunValue.items) : ArrayStep(RunValue.items[k])

\* found_at of a step, null when the key is missing.
FoundAt(stepObject) ==
    IF stepObject.found_at = "undefined" THEN "null" ELSE stepObject.found_at

\* Some step has a found_at that is not null and a later step has another
\* found_at (another value, or null).
FoundAtUnstable(items) ==
    \E j, k \in 1..Len(items) :
        j < k /\ FoundAt(items[j]) # "null" /\ FoundAt(items[k]) # FoundAt(items[j])

\* C11 (as stated): a search answer in which found_at changes or returns to
\* null after being non-null is rejected and never displayed.
C11_FoundAtStable ==
    (ArrayRun /\ AlgorithmType(RunAlgorithm) = "search"
        /\ FoundAtUnstable(RunValue.items)) =>
        /\ ~last.result.success
        /\ simulationData.isNull

\* C11 (amended): such an answer is not rejected: the action returns
\* success, the answer is loaded with no error, and the display marks at
\* every step exactly the cell that step's own found_at names, so the mark
\* can move or disappear from one step to the next.
C11_FoundAtDisplayed ==
    (ArrayRun /\ AlgorithmType(RunAlgorithm) = "search"
        /\ FoundAtUnstable(RunValue.items)) =>
        /\ last.result.success
        /\ error = NoError
        /\ simulationData = Data(last.outcome)
        /\ View(family, simulationData, step) = "steps"
        /\ FoundCells(simulationData, step) =
              {index \in 0..(Len(RunValue.items[step + 1].array) - 1) :
                  ToString(index) = FoundAt(RunValue.items[step + 1])}

\* C11 witness: a linear search whose first step marks index 1 as found and
\* whose second step, on display, marks nothing.
C11_Witness ==
    /\ ArrayRun /\ RunAlgorithm = "Linear Search"
    /\ FoundAtUnstable(RunValue.items)
    /\ step = 1
    /\ FoundCells(simulationData, 0) = {1}
    /\ FoundCells(simulationData, 1) = {}

\* An answer of node/edge steps to a run of the tree page.
TreeRun ==
    /\ family = "tree"
    /\ ParsedRun
    /\ RunValue.t = "arr"
    /\ \A k \in 1..Len(RunValue.items) : NodeEdgeStep(RunValue.items[k])

SomeFoundAt(items) == \E k \in 1..Len(items) : FoundAt(items[k]) # "null"

\* C12 (as stated): a traversal answer with a found_at that is not null in
\* some step is rejected and never displayed.
C12_TraversalFoundAtNull ==
    (TreeRun /\ AlgorithmType(RunAlgorithm) = "traversal"
        /\ SomeFoundAt(RunValue.items)) =>
        /\ ~last.result.success
        /\ simulationData.isNull

\* C12 (amended): such an answer is not rejected: the action returns
\* success, the answer is loaded with no error, and the tree viewer, which
\* reads no found_at, draws every step from its nodes, edges and
\* traversalOrder alone.
C12_TraversalFoundAtDisplayed ==
    (TreeRun /\ AlgorithmType(RunAlgorithm) = "traversal"
        /\ SomeFoundAt(RunValue.items)) =>
        /\ last.result.success
        /\ error = NoError
        /\ simulationData = Data(last.outcome)
        /\ View(family, simulationData, step) = "steps"
        /\ DrawnNodeIds(simulationData, step) = NodeIds(RunValue.items[step + 1])
        /\ TraversalShown(simulationData, step) = RunValue.items[step + 1].traversalOrder

\* C12 witness: an in-order traversal on display at a step whose found_at
\* names node A.
C12_Witness ==
    /\ TreeRun /\ RunAlgorithm = "In-order Traversal"
    /\ step = 1
    /\ View(family, simulationData, step) = "steps"
    /\ FoundAt(RunValue.items[step + 1]) = "A"

\* The indices marked sorted, and the values in the traversal order, of a
\* step; some step has a mark that a later step has not.
Range(seq) == {seq[k] : k \in 1..Len(seq)}

SortedShrinks(items) ==
    \E j, k \in 1..Len(items) :
        j < k /\ ~(Range(items[j].sorted) \subseteq Range(items[k].sorted))

TraversalShrinks(items) ==
    \E j, k \in 1..Len(items) :
        j < k /\ ~(Range(items[j].traversalOrder) \subseteq Range(items[k].traversalOrder))

MarksShrink ==
    \/ ArrayRun /\ SortedShrinks(RunValue.items)
    \/ TreeRun /\ TraversalShrinks(RunValue.items)

\* C13 (as stated): an answer in which an element marked sorted or visited
\* at one step is not marked at a later step is rejected during validation
\* and never displayed.
C13_MarksKept ==
    MarksShrink =>
        /\ ~last.result.success
        /\ simulationData.isNull

\* C13 (amended): such an answer is not rejected: the action returns
\* success, the answer is loaded with no error, and at every step the array
\* display marks sorted exactly the indices of that step's own sorted, and
\* the tree viewer lists exactly that step's own traversalOrder, so a mark
\* can disappear from one step to the next.
C13_MarksDisplayed ==
    MarksShrink =>
        /\ last.result.success
        /\ error = NoError
        /\ simulationData = Data(last.outcome)
        /\ View(family, simulationData, step) = "steps"
        /\ family = "array" =>
              SortedCells(simulationData, step) =
                  Range(RunValue.items[step + 1].sorted)
                      \cap 0..(Len(RunValue.items[step + 1].array) - 1)
        /\ family = "tree" =>
              TraversalShown(simulationData, step) =
                  RunValue.items[step + 1].traversalOrder

\* C13 witness: a sort whose first step marks index 0 sorted and whose
\* second step, on display, marks nothing.
C13_Witness ==
    /\ ArrayRun /\ SortedShrinks(RunValue.items)
    /\ step = 1
    /\ SortedCells(simulationData, 0) = {0}
    /\ SortedCells(simulationData, 1) = {}

\* The keys a step of each family cannot do without: the array display
\* reads array and highlighted, the graph and tree viewers nodes and edges
\* (the graph viewer distanceMatrix instead, for a matrix step), and every
\* step has its stepDescription.
MissingKey(fam, stepObject) ==
    CASE fam = "array" ->
            ~({"array", "highlighted", "stepDescription"} \subseteq stepObject.keys)
      [] fam = "graph" ->
            /\ ~({"nodes", "edges", "stepDescription"} \subseteq stepObject.keys)
            /\ ~({"distanceMatrix", "stepDescription"} \subseteq stepObject.keys)
      [] fam = "tree" ->
            ~({"nodes", "edges", "stepDescription"} \subseteq stepObject.keys)

\* C14 (as stated): every step of an answer is checked for the required
\* keys of its family before the run is displayed; an answer with a step
\* that misses one is rejected with an error and never loaded.
C14_StepsChecked ==
    (ParsedRun /\ RunValue.t = "arr"
        /\ \E k \in 1..Len(RunValue.items) : MissingKey(family, RunValue.items[k])) =>
        /\ ~last.result.success
        /\ error # NoError
        /\ simulationData.isNull

\* The variant of a graph step, and an answer to a run of the graph page
\* that the viewer can draw at every step and that mixes the two variants.
Variant(stepObject) ==
    IF HasKey(stepObject, "distanceMatrix") THEN "matrix" ELSE "nodeEdge"

MatrixStep(stepObject) ==
    HasKey(stepObject, "distanceMatrix") /\ Len(stepObject.matrix) > 0

MixedRun ==
    /\ family = "graph"
    /\ ParsedRun
    /\ RunValue.t = "arr"
    /\ \A k \in 1..Len(RunValue.items) :
          NodeEdgeStep(RunValue.items[k]) \/ MatrixStep(RunValue.items[k])
    /\ \E j, k \in 1..Len(RunValue.items) :
          Variant(RunValue.items[j]) # Variant(RunValue.items[k])

\* C15 (as stated): every step of a graph run on display is of one
\* variant: all node/edge steps or all distance-matrix steps.
C15_OneVariant ==
    (family = "graph" /\ Loaded /\ View(family, simulationData, step) = "steps") =>
        \A j, k \in 1..N :
            Variant(SimulationSteps(simulationData).items[j])
                = Variant(SimulationSteps(simulationData).items[k])

\* C15 (amended): an answer that mixes the variants is not rejected: the
\* action returns success, the answer is loaded with no error, and the
\* graph viewer chooses the drawing for each step by that step's own
\* distanceMatrix, so one run can show node/edge and matrix steps.
C15_VariantPerStep ==
    MixedRun =>
        /\ last.result.success
        /\ error = NoError
        /\ simulationData = Data(last.outcome)
        /\ View(family, simulationData, step) = "steps"
        /\ DrawnVariant(simulationData, step) = Variant(RunValue.items[step + 1])

\* C15 witness: a graph run on display at a matrix step whose first step
\* is a node/edge step.
C15_Witness ==
    /\ MixedRun
    /\ step = 1
    /\ DrawnVariant(simulationData, 0) = "nodeEdge"
    /\ DrawnVariant(simulationData, 1) = "matrix"

(***************************************************************************)
(* Properties of what reaches the generative model.                        *)
(***************************************************************************)
\* C16: an input error never reaches the generative model: when graphData
\* (or treeData) is not valid JSON the action returns its "invalid data
\* format" Result and makes no call of the model, so every input the model
\* received on the graph and tree pages carries data that parses.
C16_InputErrorStopsCall ==
    /\ family \in {"graph", "tree"} =>
          \A k \in 1..Len(sent) : JSONparse(sent[k].data).ok
    /\ (/\ direct # <<>>
        /\ family \in {"graph", "tree"}
        /\ SchemaOk(direct[1].values)
        /\ ~JSONparse(direct[1].values.data).ok) =>
          /\ direct[1].modelCalls = 0
          /\ direct[1].result =
                Failure(IF family = "graph" THEN InvalidGraphDataMsg
                        ELSE InvalidTreeDataMsg)

\* C16 witness: handleGraphSimulation was called with a graphData that does
\* not parse, after a call that did reach the model, and returned the
\* error Result.
C16_Witness ==
    /\ family = "graph"
    /\ direct # <<>>
    /\ SchemaOk(direct[1].values)
    /\ direct[1].values.data = <<LBracket>>
    /\ direct[1].result = Failure(InvalidGraphDataMsg)
    /\ Len(sent) = 1

\* The minimal shape of the payload of each family: a list of numbers, an
\* object with nodes and edges, an object with a value.
PayloadShaped(fam, text) ==
    CASE fam = "array" ->
            /\ JSONparse(text).ok
            /\ JSONparse(text).value.t = "arr"
            /\ \A i \in 1..Len(JSONparse(text).value.items) :
                  JSONparse(text).value.items[i].t = "num"
      [] fam = "graph" -> GraphDataValid(text)
      [] fam = "tree" -> TreeDataValid(text)

\* C17 (as stated): every request that reaches the generative model, from
\* the form or from a direct call of the server action, carries a payload
\* of the minimal shape of its family.
C17_PayloadsShaped ==
    \A k \in 1..Len(sent) : PayloadShaped(family, sent[k].data)

\* Targets that are absent, blank or no number.
BadTargets ==
    {Absent, Text(<<>>), Text(<<" ">>), Text(<<"a">>), Text(<<"1", "a">>)}

SearchAlgorithms(fam) == {a \in Algorithms(fam) : AlgorithmType(a) = "search"}

\* C18: for a search on the array or tree page a target that is absent,
\* blank or no number fails the form's schema on the target field, the
\* submission calls no server action, and so every call made for a search
\* carries a target that is a number.
C18_TargetRequired ==
    /\ \A fam \in {"array", "tree"} :
          \A a \in SearchAlgorithms(fam), t \in BadTargets :
              "target" \in InvalidFields(fam, [form EXCEPT !.algorithm = a, !.target = t])
    /\ (/\ family \in {"array", "tree"}
        /\ AlgorithmType(form.algorithm) = "search"
        /\ form.target \in BadTargets) => ~FormValid(family, form)
    /\ "target" \in invalid => family \in {"array", "tree"}
    /\ \A k \in 1..Len(calls) :
          AlgorithmType(calls[k].algorithmName) = "search" =>
              /\ calls[k].target.defined
              /\ IF calls[k].target.isNumber THEN calls[k].target # NaN
                 ELSE /\ Trim(calls[k].target.text) # <<>>
                      /\ Number(calls[k].target.text) # NaN
    /\ Len(sent) + Cardinality(inflight) <= Len(calls)

\* C18 witness: a Binary Search on the tree page with a blank target shows
\* the message of the target field, and no call was made.
C18_Witness ==
    /\ family = "tree"
    /\ form.algorithm = "Binary Search"
    /\ form.target = Text(<<>>)
    /\ invalid = {"target"}
    /\ calls = <<>> /\ sent = <<>> /\ inflight = {}

\* C19 (as stated): a graph submission for an algorithm that needs a start
\* (or end) node whose start (or end) field is absent or blank is rejected,
\* so no request of such an algorithm reaches the generative model with a
\* blank start (or end) node.
NodeGiven(field) == field.defined /\ Trim(field.text) # <<>>

C19_NodesRequired ==
    family = "graph" =>
        \A k \in 1..Len(sent) :
            /\ NeedsStart(sent[k].algorithmName) => NodeGiven(sent[k].startNode)
            /\ NeedsEnd(sent[k].algorithmName) => NodeGiven(sent[k].endNode)

\* C20: a failed call of the generative model is not retried: a submission
\* makes at most one call of the model, and when that call throws the run
\* ends with the one unexpected-error message, nothing loaded and nothing
\* pending.
C20_NoRetry ==
    /\ Len(sent) + Cardinality(inflight) <= Len(calls)
    /\ (last.sub # 0 /\ last.outcome.kind = "throw") =>
          /\ last.result = Failure(UnexpectedMsg)
          /\ error = UnexpectedMsg
          /\ simulationData.isNull
          /\ inflight = {}
          /\ ~isPending
          /\ sent[Len(sent)] = ModelInput(family, calls[last.sub])

\* C20 witness: the call of the second submission threw, and the model was
\* called twice in all, once for each submission.
C20_Witness ==
    /\ Len(calls) = 2 /\ last.sub = 2
    /\ last.outcome = Throws
    /\ Len(sent) = 2
    /\ error = UnexpectedMsg

\* The way a call of the generative model fails: the flow throws, it
\* returns no output, or its visualizationData is no JSON text.
FailureKind(o) ==
    IF o.kind = "throw" THEN "throw"
    ELSE IF o.kind = "nooutput" THEN "nooutput"
    ELSE IF ~JSONparse(o.visualizationData).ok THEN "syntax"
    ELSE "none"

FailingOutcomes ==
    {o \in ArrayOutcomes \cup GraphOutcomes \cup TreeOutcomes : FailureKind(o) # "none"}

Messages ==
    {NoError, InvalidInputMsg, InvalidGraphDataMsg, InvalidTreeDataMsg,
     InvalidVisualizationMsg, UnexpectedMsg}

\* C21: the error the user sees is one of the fixed messages, and it is the
\* message any other response that fails in the same way would have given:
\* it carries nothing of the response or of the exception.
C21_ErrorIsConstant ==
    /\ error \in Messages
    /\ (last.sub # 0 /\ FailureKind(last.outcome) # "none") =>
          /\ error = last.result.error
          /\ \A o \in FailingOutcomes :
                FailureKind(o) = FailureKind(last.outcome) =>
                    ServerAction(family, calls[last.sub], o).error = error

\* C21 witness: a truncated answer gave the invalid-data message, and so
\* does a different truncated answer.
C21_Witness ==
    /\ last.sub # 0
    /\ last.outcome = Output("description", Truncated(JSONstringify(JArr(<<StepAB>>))))
    /\ error = InvalidVisualizationMsg
    /\ \E o \in FailingOutcomes :
          /\ FailureKind(o) = "syntax"
          /\ o.visualizationData # last.outcome.visualizationData

\* C22: a new submission clears the previous result and the previous error
\* before its call resolves: while a request is pending no run is loaded,
\* no step is drawn and no error is shown.
C22_ClearedWhilePending ==
    isPending =>
        /\ simulationData.isNull
        /\ error = NoError
        /\ View(family, simulationData, step) = "none"
        /\ step = 0

\* C22 witness: the second submission is pending, made while a run was on
\* display at its second step.
C22_Witness ==
    /\ isPending
    /\ Len(calls) = 2
    /\ leftAt >= 1

\* C23: the description on display and every step on display come from one
\* and the same response, the one of the latest submission.
C23_OneResponse ==
    ~simulationData.isNull =>
        /\ last.sub = Len(calls)
        /\ last.outcome.kind = "output"
        /\ DescriptionShown(simulationData) = last.outcome.simulationDescription
        /\ simulationData.visualizationData = last.outcome.visualizationData
        /\ View(family, simulationData, step) = "steps" =>
              /\ SimulationSteps(simulationData) = RunValue
              /\ CurrentStep(SimulationSteps(simulationData), step) = Index(RunValue, step)

\* C23 witness: after a first run was viewed at its second step, the answer
\* to the second submission, which has another description, is on display
\* at its second step.
C23_Witness ==
    /\ Len(calls) = 2 /\ last.sub = 2
    /\ leftAt >= 1
    /\ ~simulationData.isNull
    /\ DescriptionShown(simulationData) = "another description"
    /\ View(family, simulationData, step) = "steps"
    /\ step = 1

\* The two updaters against seek, at index s of a run of n steps.
StepIsSeek(s, n) ==
    /\ NextStep(s, n) = Seek(s + 1, n)
    /\ PreviousStep(s) = Seek(s - 1, n)
    /\ NextStep(s, n) = IF s = n - 1 THEN s ELSE s + 1
    /\ PreviousStep(s) = IF s = 0 THEN s ELSE s - 1

\* C24: next and previous are seek(index + 1) and seek(index - 1): next at
\* index N-1 and previous at index 0 leave the index where it is, and at
\* every other index they move it by exactly one.  Checked for every index
\* of the run on display and for every run length up to one more than the
\* longest.
C24_StepIsClampedSeek ==
    /\ \A n \in 1..(MaxSteps + 1) : \A s \in 0..(n - 1) : StepIsSeek(s, n)
    /\ ControlsShown => StepIsSeek(step, N)

\* C24 witness: the viewer was stepped to the last index of the longest
\* run, where next leaves the index and previous moves it by one.
C24_Witness ==
    /\ ControlsShown
    /\ N = MaxSteps
    /\ step = N - 1
    /\ NextStep(step, N) = step
    /\ PreviousStep(step) = step - 1

\* A step of the viewer: neither the form nor a call changes.
Navigation ==
    /\ calls' = calls
    /\ inflight' = inflight
    /\ form' = form
    /\ invalid' = invalid
    /\ direct' = direct

\* C25: navigation only reads the loaded run.  Seeking to an index twice
\* shows the step that seeking once shows, and a previous or next step
\* leaves the step sequence and the description as they were loaded: the
\* step shown at the new index is the step the response has at that index.
C25_NavigationReadsOnly ==
    /\ [](ControlsShown =>
            \A i \in -1..(N + 1) :
                /\ Seek(Seek(i, N), N) = Seek(i, N)
                /\ CurrentStep(SimulationSteps(simulationData), Seek(Seek(i, N), N))
                      = Index(RunValue, Seek(i, N)))
    /\ [][Navigation =>
            /\ simulationData' = simulationData
            /\ DescriptionShown(simulationData') = last.outcome.simulationDescription
            /\ CurrentStep(SimulationSteps(simulationData'), step') = Index(RunValue, step')]_vars

\* C25 witness: the viewer was moved to the second step of a run whose two
\* steps differ, and shows the second step of the response.
C25_Witness ==
    /\ ControlsShown
    /\ N = 2
    /\ step = 1
    /\ Index(RunValue, 0) # Index(RunValue, 1)
    /\ CurrentStep(SimulationSteps(simulationData), step) = Index(RunValue, 1)

\* C26 (as stated): once the call of a submission has returned or thrown,
\* the panel is not pending and shows the run or an error message; no
\* response the action accepts leaves it showing neither.  Read in the
\* widest sense: a placeholder of the viewer counts as showing the run, and
\* a render that threw is left aside.
C26_RunOrErrorShown ==
    (last.sub # 0 /\ inflight = {} /\ ~crashed) =>
        /\ ~isPending
        /\ \/ error # NoError
           \/ View(family, simulationData, step) \in {"steps", "placeholder", "invalid"}

\* C27 (as stated): a request for a tree traversal carries no target: the
\* input generateTreeSimulation receives for a traversal has target
\* undefined, from every state of the form, the initial one included.
C27_TraversalWithoutTarget ==
    family = "tree" =>
        \A k \in 1..Len(sent) :
            AlgorithmType(sent[k].algorithmName) = "traversal" =>
                ~sent[k].target.defined

\* C28: in the three viewers the previous control is disabled exactly at
\* index 0 and the next control exactly at index N-1, so a control that is
\* enabled moves the index by exactly one, and both are disabled for a run
\* of one step.
C28_ControlsDisabledAtEnds ==
    /\ [](ControlsShown =>
            /\ PreviousDisabled(step) <=> step = 0
            /\ NextDisabled(step, N) <=> step = N - 1
            /\ ~PreviousDisabled(step) => PreviousStep(step) = step - 1
            /\ ~NextDisabled(step, N) => NextStep(step, N) = step + 1
            /\ N = 1 => PreviousDisabled(step) /\ NextDisabled(step, N))
    /\ [][Navigation => (step' = step + 1 \/ step' = step - 1)]_vars

\* C28 witness: a run of one step is on display, with both controls
\* disabled.
C28_Witness ==
    /\ ControlsShown
    /\ N = 1
    /\ PreviousDisabled(step)
    /\ NextDisabled(step, N)

\* C29 (as stated): the voice toggle calls start() only on an idle
\* recogniser and stop() only on one that has a session, for every
\* interleaving of clicks with onstart, onend and onerror.
C29_ToggleMatchesSession ==
    \A k \in 1..Len(methodCalls) :
        IF methodCalls[k].method = "start"
          THEN methodCalls[k].session = "idle"
        ELSE methodCalls[k].session # "idle"

\* The node/edge step the graph or tree viewer draws, when it draws one.
EdgesOnDisplay ==
    /\ family \in {"graph", "tree"}
    /\ ControlsShown
    /\ ~IsFloydWarshall(CurrentStep(SimulationSteps(simulationData), step))
ShownStep == CurrentStep(SimulationSteps(simulationData), step)

\* The last node of a step that has the id.
LastWithId(stepObject, id, node) ==
    \E k \in 1..Len(stepObject.nodes) :
        /\ stepObject.nodes[k] = node
        /\ node.id = id
        /\ \A j \in (k + 1)..Len(stepObject.nodes) : stepObject.nodes[j].id # id

\* C30: the graph and tree viewers draw an edge exactly when its source
\* and its target are ids of nodes of the current step; an edge with an
\* unknown endpoint is left out and the render completes; and the line of
\* an edge runs between the last node with the source id and the last node
\* with the target id.
C30_EdgesBetweenKnownNodes ==
    EdgesOnDisplay =>
        /\ ~crashed
        /\ \A k \in 1..Len(ShownStep.edges) :
              (\E line \in DrawnLines(ShownStep) : line.index = k - 1) <=>
                  /\ ShownStep.edges[k].source \in NodeIds(ShownStep)
                  /\ ShownStep.edges[k].target \in NodeIds(ShownStep)
        /\ \A line \in DrawnLines(ShownStep) :
              \E sourceNode, targetNode \in Range(ShownStep.nodes) :
                  /\ LastWithId(ShownStep, ShownStep.edges[line.index + 1].source, sourceNode)
                  /\ LastWithId(ShownStep, ShownStep.edges[line.index + 1].target, targetNode)
                  /\ line = Line(line.index, sourceNode, targetNode)

\* C30 witness: the viewer passed a step with an edge to an unknown id,
\* drawing one of its two edges, and shows a step with two nodes A, whose
\* edge starts at the second of them.
C30_Witness ==
    /\ EdgesOnDisplay
    /\ RunValue.items = <<StepDangling, StepTwins>>
    /\ step = 1
    /\ ~crashed
    /\ Cardinality(DrawnLines(StepDangling)) = 1
    /\ DrawnLines(ShownStep) = {[index |-> 0, x1 |-> 3, y1 |-> 3, x2 |-> 2, y2 |-> 1]}

====
